---- MODULE Spec2Model ----
(***************************************************************************)
(* Model of the smart text editor: the Trie of src/components/Trie.js and  *)
(* the editing session of src/components/TextEditor.jsx.                   *)
(*                                                                         *)
(* A JavaScript string is modelled as a sequence of one-character strings, *)
(* so that it can be indexed, split and compared character by character.   *)
(***************************************************************************)
EXTENDS Integers, Sequences, FiniteSets, TLC

VARIABLES
  trie,          \* Trie.root and everything reachable from it
  inserted,      \* history: the words passed to Trie.insert so far
  insOrder,      \* history: the vocabulary preload's insert calls, in order
  nIns,          \* history: number of insert calls (bounded by MaxInserts)
  prevTrie,      \* history: the trie before the latest operation
  lastOp,        \* history: the latest operation
  lastWord,      \* history: the argument of the latest insert call
  dup,           \* history: the latest insert repeated the insert just before it
  qprefix,       \* the latest getSuggestions call: its prefix argument,
  qlimit,        \*   its limit argument,
  qres,          \*   and how it completed
  text,          \* TextEditor state: text
  pattern,       \* TextEditor state: pattern
  matches,       \* TextEditor state: matches
  current,       \* TextEditor state: current
  suggestions,   \* TextEditor state: suggestions
  mounted,       \* the mount effects of TextEditor have run
  effectPending, \* the search effect is scheduled (text or pattern changed)
  prevCurrent,   \* history: current before the latest operation
  lastInput      \* history: e.target.value of the latest handleTextChange

vars == <<trie, inserted, insOrder, nIns, prevTrie, lastOp, lastWord, dup, qprefix,
          qlimit, qres, text, pattern, matches, current, suggestions, mounted,
          effectPending, prevCurrent, lastInput>>

editorVars == <<text, pattern, matches, current, suggestions, mounted,
                effectPending, prevCurrent, lastInput>>

(***************************************************************************)
(* Bounds of the model.                                                    *)
(***************************************************************************)
MaxInserts == 3
MaxLimit == 2

(***************************************************************************)
(* Characters and String.prototype helpers.                                *)
(***************************************************************************)
UpperChars == <<"A","B","C","D","E","F","G","H","I","J","K","L","M",
                "N","O","P","Q","R","S","T","U","V","W","X","Y","Z">>

LowerChars == <<"a","b","c","d","e","f","g","h","i","j","k","l","m",
                "n","o","p","q","r","s","t","u","v","w","x","y","z">>

DigitChars == <<"0","1","2","3","4","5","6","7","8","9">>

\* String.prototype.toLowerCase on one character.
toLowerCaseCh(ch) ==
  IF \E i \in 1..Len(UpperChars) : UpperChars[i] = ch
    THEN LowerChars[CHOOSE i \in 1..Len(UpperChars) : UpperChars[i] = ch]
    ELSE ch

\* String.prototype.toLowerCase.
toLowerCase(s) == [i \in 1..Len(s) |-> toLowerCaseCh(s[i])]

\* The elements of an array, as a set.
Elems(s) == {s[i] : i \in 1..Len(s)}

\* s begins with p.
StartsWith(s, p) == Len(p) <= Len(s) /\ SubSeq(s, 1, Len(p)) = p

(***************************************************************************)
(* TrieNode and Trie.  A node is identified by the path of characters that *)
(* leads to it from the root; the trie maps each existing node to its      *)
(* fields.  children holds the keys of node.children in the order          *)
(* Object.entries enumerates them; the child under key ch of node p is the *)
(* node Append(p, ch).                                                     *)
(***************************************************************************)
TrieNode == [children |-> <<>>, isEnd |-> FALSE]

Root == <<>>

NewTrie == (Root :> TrieNode)

\* Mutant: the lookup of an existing child always misses.
HasChild_Never(t, node, ch) == FALSE

HasChild(t, node, ch) == \E i \in 1..Len(t[node].children) : t[node].children[i] = ch

\* An integer-like property name: Object.entries lists these first, ascending.
IsIndexKey(ch) == \E i \in 1..Len(DigitChars) : DigitChars[i] = ch

IndexOf(ch) == CHOOSE i \in 1..Len(DigitChars) : DigitChars[i] = ch

\* Position of a character in the order of character codes.
CodeOrder ==
  <<" ", "'", ",", ".">> \o DigitChars \o UpperChars \o LowerChars

CharCode(ch) == CHOOSE i \in 1..Len(CodeOrder) : CodeOrder[i] = ch

\* Mutant: the children are kept sorted by character instead of by insertion.
AddKey_Sorted(keys, ch) ==
  SelectSeq(keys, LAMBDA k : CharCode(k) < CharCode(ch)) \o <<ch>>
    \o SelectSeq(keys, LAMBDA k : CharCode(k) > CharCode(ch))

\* The own-property order of an object after a new key is set: integer-like
\* keys in ascending order first, then the other keys in insertion order.
AddKey(keys, ch) ==
  IF ~IsIndexKey(ch)
    THEN Append(keys, ch)
    ELSE LET before == SelectSeq(keys, LAMBDA k : IsIndexKey(k) /\ IndexOf(k) < IndexOf(ch))
             after  == SelectSeq(keys, LAMBDA k : ~(IsIndexKey(k) /\ IndexOf(k) < IndexOf(ch)))
         IN  before \o <<ch>> \o after

\* node.children[ch] = new TrieNode()
AddChild(t, node, ch) ==
  [t EXCEPT ![node].children = AddKey(@, ch)] @@ (Append(node, ch) :> TrieNode)

\* The loop of insert from character i of the lowercased word, then the flag.
RECURSIVE insertFrom(_, _, _, _)
insertFrom(t, node, lw, i) ==
  IF i > Len(lw)
    THEN [t EXCEPT ![node].isEnd = TRUE]
    ELSE LET t1 == IF ~HasChild(t, node, lw[i]) THEN AddChild(t, node, lw[i]) ELSE t
         IN  insertFrom(t1, Append(node, lw[i]), lw, i + 1)

\* Trie.insert(word)
insert(t, word) == insertFrom(t, Root, toLowerCase(word), 1)

\* The first loop of getSuggestions: the node the lowercased prefix leads to;
\* found is FALSE where the loop returns [].
RECURSIVE walk(_, _, _, _)
walk(t, node, lp, i) ==
  IF i > Len(lp) THEN [found |-> TRUE, node |-> node]
  ELSE IF ~HasChild(t, node, lp[i]) THEN [found |-> FALSE, node |-> node]
  ELSE walk(t, Append(node, lp[i]), lp, i + 1)

RECURSIVE dfs(_, _, _, _, _, _)
RECURSIVE dfsChildren(_, _, _, _, _, _, _)
RECURSIVE dfs_PostOrder(_, _, _, _, _, _)
RECURSIVE dfsChildren_PostOrder(_, _, _, _, _, _, _)
RECURSIVE dfs_OffByOne(_, _, _, _, _, _)
RECURSIVE dfsChildren_OffByOne(_, _, _, _, _, _, _)

\* Mutant: a node's own word is pushed after its children were visited.
dfs_PostOrder(t, curr, path, prefix, limit, results) ==
  IF Len(results) >= limit
    THEN results
    ELSE LET r1 == dfsChildren_PostOrder(t, curr, path, prefix, limit, results, 1)
         IN  IF t[curr].isEnd /\ Len(r1) < limit THEN Append(r1, prefix \o path) ELSE r1

dfsChildren_PostOrder(t, curr, path, prefix, limit, results, k) ==
  IF k > Len(t[curr].children)
    THEN results
    ELSE LET ch == t[curr].children[k]
             r1 == dfs_PostOrder(t, Append(curr, ch), Append(path, ch), prefix, limit, results)
         IN  dfsChildren_PostOrder(t, curr, path, prefix, limit, r1, k + 1)

\* Mutant: the limit test is results.length > limit.
dfs_OffByOne(t, curr, path, prefix, limit, results) ==
  IF Len(results) > limit
    THEN results
    ELSE LET r1 == IF t[curr].isEnd THEN Append(results, prefix \o path) ELSE results
         IN  dfsChildren_OffByOne(t, curr, path, prefix, limit, r1, 1)

dfsChildren_OffByOne(t, curr, path, prefix, limit, results, k) ==
  IF k > Len(t[curr].children)
    THEN results
    ELSE LET ch == t[curr].children[k]
             r1 == dfs_OffByOne(t, Append(curr, ch), Append(path, ch), prefix, limit, results)
         IN  dfsChildren_OffByOne(t, curr, path, prefix, limit, r1, k + 1)

\* dfs(curr, path) of getSuggestions, with the results array threaded through.
dfs(t, curr, path, prefix, limit, results) ==
  IF Len(results) >= limit
    THEN results
    ELSE LET r1 == IF t[curr].isEnd THEN Append(results, prefix \o path) ELSE results
         IN  dfsChildren(t, curr, path, prefix, limit, r1, 1)

dfsChildren(t, curr, path, prefix, limit, results, k) ==
  IF k > Len(t[curr].children)
    THEN results
    ELSE LET ch == t[curr].children[k]
             r1 == dfs(t, Append(curr, ch), Append(path, ch), prefix, limit, results)
         IN  dfsChildren(t, curr, path, prefix, limit, r1, k + 1)

\* Trie.getSuggestions(prefix, limit)
getSuggestions(t, prefix, limit) ==
  LET w == walk(t, Root, toLowerCase(prefix), 1)
  IN  IF ~w.found THEN <<>> ELSE dfs(t, w.node, <<>>, prefix, limit, <<>>)

\* How a call of getSuggestions completes: every path of the function is a
\* return statement.
getSuggestionsCall(t, prefix, limit) ==
  [kind |-> "return", value |-> getSuggestions(t, prefix, limit)]

(***************************************************************************)
(* The Trie on its own: any sequence of insert and getSuggestions calls.   *)
(***************************************************************************)
Words ==
  { <<>>, <<"a">>, <<"A">>, <<"b">>, <<"a","b">>, <<"a","B">>, <<"a","a">>,
    <<"a","b","a">>, <<"1">> }

Prefixes == Words \cup { <<"B">>, <<"A","B">>, <<"b","b">>, <<"A","b","A">> }

Limits == (-1)..MaxLimit

NoCall == [kind |-> "none", value |-> <<>>]

EditorIdle ==
  /\ text = <<>>
  /\ pattern = <<>>
  /\ matches = <<>>
  /\ current = -1
  /\ suggestions = <<>>
  /\ mounted = FALSE
  /\ effectPending = FALSE
  /\ prevCurrent = -1
  /\ lastInput = <<>>

TrieInit ==
  /\ trie = NewTrie
  /\ inserted = {}
  /\ insOrder = <<>>
  /\ nIns = 0
  /\ prevTrie = NewTrie
  /\ lastOp = "init"
  /\ lastWord = <<>>
  /\ dup = FALSE
  /\ qprefix = <<>>
  /\ qlimit = 0
  /\ qres = NoCall

Init == TrieInit /\ EditorIdle

Insert(w) ==
  /\ nIns < MaxInserts
  /\ trie' = insert(trie, w)
  /\ inserted' = inserted \cup {w}
  /\ insOrder' = insOrder
  /\ nIns' = nIns + 1
  /\ prevTrie' = trie
  /\ lastOp' = "insert"
  /\ lastWord' = w
  /\ dup' = (lastOp = "insert" /\ lastWord = w)
  /\ qprefix' = <<>>
  /\ qlimit' = 0
  /\ qres' = NoCall
  /\ UNCHANGED editorVars

Query(p, l) ==
  /\ qres' = getSuggestionsCall(trie, p, l)
  /\ qprefix' = p
  /\ qlimit' = l
  /\ lastOp' = "query"
  /\ prevTrie' = trie
  /\ lastWord' = <<>>
  /\ dup' = FALSE
  /\ UNCHANGED <<trie, inserted, insOrder, nIns>>
  /\ UNCHANGED editorVars

Next ==
  \/ \E w \in Words : Insert(w)
  \/ \E p \in Prefixes, l \in Limits : Query(p, l)

Spec == Init /\ [][Next]_vars

(***************************************************************************)
(* Properties of the Trie, checked under Spec.                             *)
(***************************************************************************)
\* The stored words of a trie: the paths of the nodes flagged isEnd.
StoredWords(t) == {n \in DOMAIN t : t[n].isEnd}

\* The vocabulary: the lowercase forms of the words passed to insert.
Vocabulary == {toLowerCase(w) : w \in inserted}

\* N of a query: the vocabulary words that start with the lowercased prefix.
Matching(p) == {v \in Vocabulary : StartsWith(v, toLowerCase(p))}

Min(a, b) == IF a <= b THEN a ELSE b

NoDuplicates(s) == \A i, j \in 1..Len(s) : s[i] = s[j] => i = j

\* C1: for every word w that has been inserted and every limit >= 1,
\* getSuggestions(w, limit) returns a sequence that contains w.
C1_InsertedWordSuggested ==
  (lastOp = "query" /\ qprefix \in inserted /\ qlimit >= 1)
    => (qres.kind = "return" /\ qprefix \in Elems(qres.value))

\* C1's case: a query for an inserted word that has longer words below it,
\* with a limit that cuts the result down to the word itself.
C1_Witness ==
  /\ lastOp = "query"
  /\ qprefix \in inserted
  /\ qlimit = 1
  /\ Cardinality(Matching(qprefix)) >= 2
  /\ qres.value = <<qprefix>>

\* C2 (as claimed): for every prefix and every limit >= 0, each string returned by
\* getSuggestions is a word of the vocabulary (the lowercase form of an inserted
\* word) and begins with the prefix.
C2_ResultsAreVocabularyWords ==
  (lastOp = "query" /\ qlimit >= 0)
    => \A i \in 1..Len(qres.value) :
         /\ qres.value[i] \in Vocabulary
         /\ StartsWith(qres.value[i], qprefix)

\* C4: inserting a word a second time immediately after inserting it leaves the
\* trie (nodes, child mappings, end-of-word flags) identical, and with it the
\* stored words and the result of every getSuggestions query.
C4_InsertIdempotent ==
  dup => /\ trie = prevTrie
         /\ StoredWords(trie) = StoredWords(prevTrie)
         /\ \A p \in Prefixes, l \in Limits :
              getSuggestions(trie, p, l) = getSuggestions(prevTrie, p, l)

\* C4's case: a word was inserted into a trie holding another word, then again.
C4_Witness ==
  /\ dup
  /\ nIns = 3
  /\ Cardinality(inserted) = 2
  /\ Len(lastWord) >= 2
  /\ Cardinality(StoredWords(trie)) = 2

\* C5 (as claimed): a call of getSuggestions with a negative limit does not
\* return normally, it fails with an invalid-argument signal.
C5_NegativeLimitFails ==
  (lastOp = "query" /\ qlimit < 0) => qres.kind = "throw"

\* C9: for every limit >= 0, getSuggestions returns exactly min(limit, N) strings
\* with no duplicates, N being the number of stored words that start with the
\* lowercased prefix, and the empty sequence when no node path matches.
C9_ResultCount ==
  (lastOp = "query" /\ qlimit >= 0)
    => /\ qres.kind = "return"
       /\ Len(qres.value) = Min(qlimit, Cardinality(Matching(qprefix)))
       /\ NoDuplicates(qres.value)
       /\ (~walk(trie, Root, toLowerCase(qprefix), 1).found => qres.value = <<>>)
       /\ StoredWords(trie) = Vocabulary

\* C9's case: more stored words start with the prefix than the limit allows, and
\* the traversal stopped at the limit.
C9_Witness ==
  /\ lastOp = "query"
  /\ qlimit = 2
  /\ Cardinality(Matching(qprefix)) = 3
  /\ Len(qres.value) = 2
  /\ qprefix # toLowerCase(qprefix)

(***************************************************************************)
(* The vocabulary of the editor.                                           *)
(***************************************************************************)
W_apple == <<"a","p","p","l","e">>
W_application == <<"a","p","p","l","i","c","a","t","i","o","n">>
W_appetite == <<"a","p","p","e","t","i","t","e">>
W_banana == <<"b","a","n","a","n","a">>
W_band == <<"b","a","n","d">>
W_banner == <<"b","a","n","n","e","r">>
W_cat == <<"c","a","t">>
W_cater == <<"c","a","t","e","r">>
W_catalog == <<"c","a","t","a","l","o","g">>

W_app == <<"a","p","p">>

\* The words TextEditor preloads into its trie, in the order of the forEach.
PreloadWords ==
  <<W_apple, W_application, W_appetite, W_banana, W_band, W_banner,
    W_cat, W_cater, W_catalog>>

\* The six-word vocabulary of the suggestion scenario.
ScenarioWords == {W_apple, W_application, W_appetite, W_banana, W_band, W_banner}

\* The limit handleTextChange passes to getSuggestions.
SuggestionLimit == 3

(***************************************************************************)
(* The scenario vocabulary inserted in any order, then queried.            *)
(***************************************************************************)
VocabInsert(w) ==
  /\ w \notin inserted
  /\ trie' = insert(trie, w)
  /\ inserted' = inserted \cup {w}
  /\ insOrder' = Append(insOrder, w)
  /\ nIns' = nIns + 1
  /\ prevTrie' = trie
  /\ lastOp' = "insert"
  /\ lastWord' = w
  /\ dup' = FALSE
  /\ qprefix' = <<>>
  /\ qlimit' = 0
  /\ qres' = NoCall
  /\ UNCHANGED editorVars

VocabQuery ==
  /\ inserted = ScenarioWords
  /\ Query(W_app, SuggestionLimit)

VocabNext ==
  \/ \E w \in ScenarioWords : VocabInsert(w)
  \/ VocabQuery

SpecVocab == Init /\ [][VocabNext]_vars

\* Position of an inserted word in the order of the insert calls.
InsertedAt(w) == CHOOSE i \in 1..Len(insOrder) : insOrder[i] = w

Before(v, w) == InsertedAt(v) < InsertedAt(w)

\* C3 (as claimed): with the six-word vocabulary inserted in any order,
\* getSuggestions("app", 3) returns ["appetite", "apple", "application"].
C3_LexicographicResult ==
  (lastOp = "query" /\ inserted = ScenarioWords /\ qprefix = W_app /\ qlimit = 3)
    => qres.value = <<W_appetite, W_apple, W_application>>

\* C3 (amended): the call returns exactly the three words appetite, apple and
\* application, once each, in the order of a depth-first traversal that visits
\* children in insertion order: apple before application iff it was inserted
\* first, and appetite before both iff it was inserted before both, after both
\* otherwise.  The preload order of the editor gives apple, application, appetite.
C3_InsertionOrderResult ==
  (lastOp = "query" /\ inserted = ScenarioWords /\ qprefix = W_app /\ qlimit = 3)
    => LET pair == IF Before(W_apple, W_application)
                     THEN <<W_apple, W_application>>
                     ELSE <<W_application, W_apple>>
       IN  /\ qres.value =
                IF Before(W_appetite, W_apple) /\ Before(W_appetite, W_application)
                  THEN <<W_appetite>> \o pair
                  ELSE pair \o <<W_appetite>>
           /\ (insOrder = SubSeq(PreloadWords, 1, 6)
                 => qres.value = <<W_apple, W_application, W_appetite>>)

\* C3's case: the six words were inserted in the order of the editor's preload
\* and the query returned them in an order that is not lexicographic.
C3_Witness ==
  /\ lastOp = "query"
  /\ insOrder = SubSeq(PreloadWords, 1, 6)
  /\ qprefix = W_app
  /\ qlimit = 3
  /\ qres.value = <<W_apple, W_application, W_appetite>>

(***************************************************************************)
(* String helpers of the editor.                                           *)
(***************************************************************************)
\* The characters \s matches, among those the model uses.
IsWhitespace(ch) == ch \in {" ", "\t", "\n"}

\* String.prototype.trim
RECURSIVE trimStart(_)
trimStart(s) == IF s # <<>> /\ IsWhitespace(Head(s)) THEN trimStart(Tail(s)) ELSE s

RECURSIVE trimEnd(_)
trimEnd(s) ==
  IF s # <<>> /\ IsWhitespace(s[Len(s)]) THEN trimEnd(SubSeq(s, 1, Len(s) - 1)) ELSE s

trim(s) == trimEnd(trimStart(s))

\* value.split(/\s+/): the pieces between maximal runs of whitespace; a leading
\* or trailing run leaves an empty first or last piece.
RECURSIVE splitFrom(_, _, _, _)
splitFrom(s, i, cur, acc) ==
  IF i > Len(s) THEN Append(acc, cur)
  ELSE IF IsWhitespace(s[i])
    THEN IF i > 1 /\ IsWhitespace(s[i - 1])
           THEN splitFrom(s, i + 1, cur, acc)
           ELSE splitFrom(s, i + 1, <<>>, Append(acc, cur))
    ELSE splitFrom(s, i + 1, Append(cur, s[i]), acc)

split(s) == splitFrom(s, 1, <<>>, <<>>)

\* words.join(" ")
RECURSIVE join(_)
join(words) ==
  IF Len(words) = 0 THEN <<>>
  ELSE IF Len(words) = 1 THEN words[1]
  ELSE words[1] \o <<" ">> \o join(Tail(words))

\* value.replace(new RegExp(last + "$"), corrected), for a last token of letters
\* (the tokens of the model's inputs): value ends with last, which is replaced.
replaceAtEnd(value, last, corrected) ==
  SubSeq(value, 1, Len(value) - Len(last)) \o corrected

\* a % n of JavaScript: the remainder takes the sign of the dividend.
JsRem(a, n) == IF a >= 0 THEN a % n ELSE -((-a) % n)

(***************************************************************************)
(* kmpSearch of ./KMP and getCorrection of ./SpellChecker, as the          *)
(* specification describes them (sections 4.2 and 4.3).                    *)
(***************************************************************************)
\* kmpSearch(text, pattern): the match list, the zero-based start offsets of all
\* occurrences of the pattern in the text, overlapping ones included, in
\* increasing order; no occurrence of an empty pattern.
kmpSearch(t, p) ==
  IF p = <<>>
    THEN <<>>
    ELSE SelectSeq([i \in 1..Len(t) |-> i - 1],
                   LAMBDA o : o + Len(p) <= Len(t) /\ SubSeq(t, o + 1, o + Len(p)) = p)

Min3(a, b, c) == Min(Min(a, b), c)

\* One row of the edit-distance table: cur holds the entries computed so far,
\* prev is the row of the previous character of a.
RECURSIVE editRow(_, _, _, _)
editRow(prev, ai, b, cur) ==
  IF Len(cur) > Len(b) THEN cur
  ELSE LET j == Len(cur)
       IN  editRow(prev, ai, b,
                   Append(cur, Min3(prev[j + 1] + 1, cur[j] + 1,
                                    prev[j] + (IF ai = b[j] THEN 0 ELSE 1))))

\* The table row by row; rows holds the rows of the characters of a done so far.
RECURSIVE editRows(_, _, _)
editRows(a, b, rows) ==
  IF Len(rows) > Len(a) THEN rows[Len(rows)][Len(b) + 1]
  ELSE LET i == Len(rows)
       IN  editRows(a, b, Append(rows, editRow(rows[i], a[i], b, <<i>>)))

\* The edit distance of two strings: the least number of single-character
\* insertions, deletions and substitutions that turn a into b.
editDistance(a, b) == editRows(a, b, <<[j \in 1..(Len(b) + 1) |-> j - 1]>>)

\* a comes before b in lexicographic order.
RECURSIVE LexLess(_, _)
LexLess(a, b) ==
  IF b = <<>> THEN FALSE
  ELSE IF a = <<>> THEN TRUE
  ELSE IF Head(a) = Head(b) THEN LexLess(Tail(a), Tail(b))
  ELSE CharCode(Head(a)) < CharCode(Head(b))

\* The largest distance at which a correction is made.
MaxDistance == 2

\* getCorrection(word): the word itself if the vocabulary holds it or holds
\* nothing within MaxDistance, else the nearest vocabulary word, the
\* lexicographically first of the nearest.
getCorrection(word) ==
  LET lw == toLowerCase(word)
      vocabulary == Elems(PreloadWords)
      best == CHOOSE v \in vocabulary :
                \A u \in vocabulary \ {v} :
                  \/ editDistance(lw, v) < editDistance(lw, u)
                  \/ editDistance(lw, v) = editDistance(lw, u) /\ LexLess(v, u)
  IN  IF lw \in vocabulary THEN word
      ELSE IF editDistance(lw, best) > MaxDistance THEN word
      ELSE best

(***************************************************************************)
(* TextEditor.  Each event handler is one action: the state setters it     *)
(* calls are applied together at the next render.  The search effect has   *)
(* the dependencies [text, pattern]: it is scheduled by a render in which  *)
(* one of them changed (a setter called with the value the state already   *)
(* has changes nothing) and it runs before the next event is handled, so   *)
(* the handlers are disabled while it is pending.                          *)
(***************************************************************************)
\* The initial value of the text state.
InitialText ==
  <<"T","y","p","e"," ","h","e","r","e","."," ","T","r","y"," ",
     "w","o","r","d","s"," ","l","i","k","e"," ","'","b","a","n",
     "'",","," ","'","a","p","p","'",","," ","o","r"," ","m","i",
     "s","s","p","e","l","l"," ","a"," ","w","o","r","d"," ","l",
     "i","k","e"," ","'","r","e","c","i","e","v","e","'",".">>

\* The longest last token that is neither corrected nor completed.
MinTokenLength == 2

\* Mutant: the suggestions are asked for the corrected word.
handleTextChange_SuggestCorrected(t, value) ==
  LET words == split(value)
      last == words[Len(words)]
  IN  IF Len(last) > MinTokenLength
        THEN LET corrected == getCorrection(last)
             IN  [text |-> IF corrected # last
                             THEN replaceAtEnd(value, last, corrected)
                             ELSE value,
                  suggestions |-> getSuggestions(t, corrected, SuggestionLimit)]
        ELSE [text |-> value, suggestions |-> <<>>]

\* handleTextChange(e), e.target.value = value: the calls of setText and
\* setSuggestions.
handleTextChange(t, value) ==
  LET words == split(value)
      last == words[Len(words)]
  IN  IF Len(last) > MinTokenLength
        THEN LET corrected == getCorrection(last)
             IN  [text |-> IF corrected # last
                             THEN replaceAtEnd(value, last, corrected)
                             ELSE value,
                  suggestions |-> getSuggestions(t, last, SuggestionLimit)]
        ELSE [text |-> value, suggestions |-> <<>>]

\* Mutant: the pattern is tested without trim().
searchEffect_NoTrim(tx, pat) ==
  IF pat = <<>>
    THEN [matches |-> <<>>, current |-> -1]
    ELSE LET m == kmpSearch(tx, pat)
         IN  [matches |-> m, current |-> IF Len(m) # 0 THEN 0 ELSE -1]

\* Mutant: a search always selects the first match, setCurrent(0).
searchEffect_AlwaysZero(tx, pat) ==
  IF trim(pat) = <<>>
    THEN [matches |-> <<>>, current |-> -1]
    ELSE [matches |-> kmpSearch(tx, pat), current |-> 0]

\* The search effect: the calls of setMatches and setCurrent.
searchEffect(tx, pat) ==
  IF trim(pat) = <<>>
    THEN [matches |-> <<>>, current |-> -1]
    ELSE LET m == kmpSearch(tx, pat)
         IN  [matches |-> m, current |-> IF Len(m) # 0 THEN 0 ELSE -1]

\* Mutant: Prev without the "+ matches.length".
prevIndex_NoWrap(c, n) == IF n # 0 THEN JsRem(c - 1, n) ELSE -1

\* The updater of the Prev button.
prevIndex(c, n) == IF n # 0 THEN JsRem(c - 1 + n, n) ELSE -1

\* The updater of the Next button.
nextIndex(c, n) == IF n # 0 THEN JsRem(c + 1, n) ELSE -1

\* handleSuggestionClick(word): the new text.
handleSuggestionClick(tx, word) ==
  LET words == split(tx)
  IN  join([words EXCEPT ![Len(words)] = word]) \o <<" ">>

\* words.forEach(w => trie.insert(w)); st is the state of the loop: the trie
\* and the number of words done.
RECURSIVE forEachInsert(_, _)
forEachInsert(st, words) ==
  IF st.done >= Len(words) THEN st.trie
  ELSE forEachInsert([trie |-> insert(st.trie, words[st.done + 1]),
                      done |-> st.done + 1], words)

insertAll(t, words) == forEachInsert([trie |-> t, done |-> 0], words)

\* The values typed into the textarea and into the search field.
TextInputs ==
  { <<>>,
    <<"a","p">>,
    <<"a","p","p">>,
    <<"a","p","p","l">>,
    <<"c","a","t">>,
    <<"C","a","t">>,
    <<"c","a","t"," ">>,
    <<"x","y","z","x","y","z">>,
    <<"b","a","n","a","n","a">>,
    <<"b","a","n","a","n","a"," ","b","a","n","d","a","n","a"," ","b","a","n","d">> }

PatternInputs ==
  { <<>>, <<" ">>, <<" "," ">>, <<"b","a","n">>, <<"a","n","a">>, <<"a">>, <<"z","z">> }

EditorInit ==
  /\ TrieInit
  /\ text = InitialText
  /\ pattern = <<>>
  /\ matches = <<>>
  /\ current = -1
  /\ suggestions = <<>>
  /\ mounted = FALSE
  /\ effectPending = FALSE
  /\ prevCurrent = -1
  /\ lastInput = <<>>

trieHistory == <<prevTrie, lastWord, dup, qprefix, qlimit, qres>>

\* The effects of the first render: the preload of the trie, then the search.
Mount ==
  /\ ~mounted
  /\ mounted' = TRUE
  /\ trie' = insertAll(trie, PreloadWords)
  /\ inserted' = Elems(PreloadWords)
  /\ insOrder' = PreloadWords
  /\ nIns' = Len(PreloadWords)
  /\ matches' = searchEffect(text, pattern).matches
  /\ current' = searchEffect(text, pattern).current
  /\ prevCurrent' = current
  /\ effectPending' = FALSE
  /\ lastOp' = "mount"
  /\ UNCHANGED <<text, pattern, suggestions, lastInput>>
  /\ UNCHANGED trieHistory

\* onChange of the textarea.  The search effect is scheduled when text changes.
TextChange(value) ==
  /\ mounted /\ ~effectPending
  /\ text' = handleTextChange(trie, value).text
  /\ suggestions' = handleTextChange(trie, value).suggestions
  /\ effectPending' = (text' # text)
  /\ lastInput' = value
  /\ prevCurrent' = current
  /\ lastOp' = "text"
  /\ UNCHANGED <<pattern, matches, current, mounted>>
  /\ UNCHANGED <<trie, inserted, insOrder, nIns>>
  /\ UNCHANGED trieHistory

\* onChange of the search field.
PatternChange(p) ==
  /\ mounted /\ ~effectPending
  /\ pattern' = p
  /\ effectPending' = (p # pattern)
  /\ prevCurrent' = current
  /\ lastOp' = "pattern"
  /\ UNCHANGED <<text, matches, current, suggestions, mounted, lastInput>>
  /\ UNCHANGED <<trie, inserted, insOrder, nIns>>
  /\ UNCHANGED trieHistory

\* The search effect, run after the render that changed text or pattern and
\* before any later event is handled.
SearchEffect ==
  /\ mounted /\ effectPending
  /\ matches' = searchEffect(text, pattern).matches
  /\ current' = searchEffect(text, pattern).current
  /\ effectPending' = FALSE
  /\ prevCurrent' = current
  /\ lastOp' = "effect"
  /\ UNCHANGED <<text, pattern, suggestions, mounted, lastInput>>
  /\ UNCHANGED <<trie, inserted, insOrder, nIns>>
  /\ UNCHANGED trieHistory

PrevClick ==
  /\ mounted /\ ~effectPending
  /\ current' = prevIndex(current, Len(matches))
  /\ prevCurrent' = current
  /\ lastOp' = "prev"
  /\ UNCHANGED <<text, pattern, matches, suggestions, mounted, effectPending, lastInput>>
  /\ UNCHANGED <<trie, inserted, insOrder, nIns>>
  /\ UNCHANGED trieHistory

NextClick ==
  /\ mounted /\ ~effectPending
  /\ current' = nextIndex(current, Len(matches))
  /\ prevCurrent' = current
  /\ lastOp' = "next"
  /\ UNCHANGED <<text, pattern, matches, suggestions, mounted, effectPending, lastInput>>
  /\ UNCHANGED <<trie, inserted, insOrder, nIns>>
  /\ UNCHANGED trieHistory

\* onClick of the i-th suggestion shown.
SuggestionClick(i) ==
  /\ mounted /\ ~effectPending
  /\ text' = handleSuggestionClick(text, suggestions[i])
  /\ suggestions' = <<>>
  /\ effectPending' = (text' # text)
  /\ prevCurrent' = current
  /\ lastOp' = "click"
  /\ UNCHANGED <<pattern, matches, current, mounted, lastInput>>
  /\ UNCHANGED <<trie, inserted, insOrder, nIns>>
  /\ UNCHANGED trieHistory

EditorNext ==
  \/ Mount
  \/ \E value \in TextInputs : TextChange(value)
  \/ \E p \in PatternInputs : PatternChange(p)
  \/ SearchEffect
  \/ PrevClick
  \/ NextClick
  \/ \E i \in 1..Len(suggestions) : SuggestionClick(i)

SpecEditor == EditorInit /\ [][EditorNext]_vars

(***************************************************************************)
(* Properties of the editor, checked under SpecEditor.                     *)
(***************************************************************************)
\* The last whitespace-separated token of the latest typed value.
LastToken == split(lastInput)[Len(split(lastInput))]

\* k presses of Next from index c with n matches.
RECURSIVE PressNext(_, _, _)
PressNext(c, n, k) == IF k = 0 THEN c ELSE PressNext(nextIndex(c, n), n, k - 1)

\* C6: with n >= 1 matches and index c, Next sets the index to (c+1) mod n and
\* Prev to (c-1) mod n, so Next then Prev restores c and so do n presses of Next;
\* with no match, Next and Prev leave the index at the sentinel -1.
C6_CyclicNavigation ==
  LET n == Len(matches)
  IN  /\ (lastOp = "next" /\ n >= 1) => current = (prevCurrent + 1) % n
      /\ (lastOp = "prev" /\ n >= 1) => current = (prevCurrent - 1) % n
      /\ (lastOp \in {"next", "prev"} /\ n = 0) => (prevCurrent = -1 /\ current = -1)
      /\ (~effectPending /\ n >= 1)
           => /\ prevIndex(nextIndex(current, n), n) = current
              /\ nextIndex(prevIndex(current, n), n) = current
              /\ PressNext(current, n, n) = current
      /\ (~effectPending /\ n = 0)
           => (nextIndex(current, n) = -1 /\ prevIndex(current, n) = -1)

\* C6's case: Prev was pressed on the first of several matches and wrapped
\* around to the last one.
C6_Witness ==
  /\ lastOp = "prev"
  /\ Len(matches) >= 3
  /\ prevCurrent = 0
  /\ current = Len(matches) - 1

\* C7: once the search effect has run for a pattern that is empty or only
\* whitespace, the match list is empty and the current-match index is -1,
\* whatever they were before.
C7_BlankPatternClears ==
  (~effectPending /\ trim(pattern) = <<>>) => (matches = <<>> /\ current = -1)

\* C7's case: the pattern became whitespace while a later match was selected in
\* a text that holds whitespace, and the effect has run.
C7_Witness ==
  /\ lastOp = "effect"
  /\ pattern # <<>>
  /\ trim(pattern) = <<>>
  /\ \E i \in 1..Len(text) : IsWhitespace(text[i])
  /\ prevCurrent >= 1
  /\ matches = <<>>
  /\ current = -1

C10_IndexInRange ==
  ~effectPending
    => /\ (current = -1) <=> (matches = <<>>)
       /\ matches # <<>> => (0 <= current /\ current < Len(matches))
       /\ (lastOp = "effect" /\ trim(pattern) # <<>> /\ matches # <<>>) => current = 0

\* C10's case: a later match was selected, the text changed, and the effect
\* put the index back on the first of several matches.
C10_Witness ==
  /\ lastOp = "effect"
  /\ trim(pattern) # <<>>
  /\ prevCurrent >= 1
  /\ Len(matches) >= 2
  /\ current = 0

====
